---- MODULE Spec2Model ----
\* A model of src/s3-v2.js: S3SyncManager (change queue, timer-driven sync
\* cycles, merge with conflict resolution, diff) and its collaborators.
EXTENDS Integers, Sequences, FiniteSets, TLC

\* ---------------------------------------------------------------- bounds
\* Number of queueChange calls in a behaviour.
MaxCalls == 2
\* Largest value of the wall clock (Date.now()) and of a remote timestamp.
MaxTime == 2
\* Number of writes other devices make to the remote store in a behaviour.
MaxRemoteWrites == 1
\* Longest localChanges array handed to mergeChanges in MergeSpec.
MaxLen == 2
\* Largest timestamp of a record handed to mergeChanges in MergeSpec.
MaxTs == 2
\* Largest number of whole parts in a serialized diff handed to uploadDiff.
MaxParts == 3
\* How far from a multiple of PART_SIZE the length of a serialized diff lies.
MaxSlack == 8

\* ------------------------------------------------------------ data model
\* Record ids (change.id, the keys of a snapshot).
Ids == {"a", "b"}

\* Device identifiers are strings; a string is modelled as the sequence of
\* its character codes, so that JavaScript's > on strings is computed.
OtherDevices == {<<1>>, <<2>>}

\* getDeviceId(): the identifier of this device, cached in this._deviceId.
getDeviceId == <<1, 2>>

DeviceIds == OtherDevices \cup {getDeviceId}

\* JavaScript's  a < b  on strings: lexicographic order on code units.
RECURSIVE StrLess(_, _)
StrLess(s, t) ==
  IF s = <<>> THEN t # <<>>
  ELSE IF t = <<>> THEN FALSE
  ELSE IF Head(s) = Head(t) THEN StrLess(Tail(s), Tail(t))
  ELSE Head(s) < Head(t)

\* JavaScript's  a > b  on strings.
StrGreater(a, b) == StrLess(b, a)

\* A snapshot is an object keyed by record id: a function whose domain is
\* the set of ids present.  {} is the function with the empty domain.
EmptyState == [k \in {} |-> 0]

\* obj[key] = value  on a copy of obj.
Put(obj, key, value) ==
  [k \in (DOMAIN obj) \cup {key} |-> IF k = key THEN value ELSE obj[k]]

\* The elements of an array.
Range(s) == {s[i] : i \in 1..Len(s)}

VARIABLES
  changeQueue,        \* this.changeQueue
  lastSyncTimestamp,  \* this.lastSyncTimestamp
  isSyncing,          \* this.isSyncing
  timers,             \* number of setTimeout callbacks armed and not yet run
  now,                \* Date.now()
  remote,             \* the snapshot held by the remote store
  base,               \* the snapshot getLastKnownState() returns
  cycles,             \* the performSync invocations in flight, with their locals
  last,               \* the locals of the invocation that ended last
  calls,              \* number of queueChange calls made so far
  bursts,             \* number of queueChange calls made when idle with no timer armed
  fetches,            \* number of fetchRemoteState calls issued so far
  remoteWrites,       \* number of writes by other devices so far
  sent                \* S3MultipartUpload.uploadDiff: data.length and what was sent

vars == <<changeQueue, lastSyncTimestamp, isSyncing, timers, now, remote,
          base, cycles, last, calls, bursts, fetches, remoteWrites, sent>>

\* getLastKnownState(): the locally cached baseline.
getLastKnownState == base

\* ------------------------------------------------------- pure functions
\* Faulty variant of mergeStep: the change is taken whatever the remote entry.
mergeStep_remoteLoses(merged, remoteState, change) ==
  Put(merged, change.id, change)

\* Faulty variant of mergeStep: a change is also compared with the entry
\* already merged, and replaces it only when it is not older.
mergeStep_newestWins(merged, remoteState, change) ==
  IF change.id \in DOMAIN merged
       /\ merged[change.id].timestamp > change.timestamp
  THEN merged
  ELSE IF change.id \notin DOMAIN remoteState
       \/ remoteState[change.id].timestamp < change.timestamp
  THEN Put(merged, change.id, change)
  ELSE IF remoteState[change.id].timestamp = change.timestamp
  THEN IF StrGreater(change.deviceId, remoteState[change.id].deviceId)
       THEN Put(merged, change.id, change)
       ELSE merged
  ELSE merged

\* Faulty variant of mergeStep: the comparison of line 65 is reversed.
mergeStep_flipped(merged, remoteState, change) ==
  IF change.id \notin DOMAIN remoteState
       \/ remoteState[change.id].timestamp > change.timestamp
  THEN Put(merged, change.id, change)
  ELSE IF remoteState[change.id].timestamp = change.timestamp
  THEN IF StrGreater(change.deviceId, remoteState[change.id].deviceId)
       THEN Put(merged, change.id, change)
       ELSE merged
  ELSE merged

\* One iteration of the loop of mergeChanges (lines 61-75).
mergeStep(merged, remoteState, change) ==
  IF change.id \notin DOMAIN remoteState
       \/ remoteState[change.id].timestamp < change.timestamp
  THEN Put(merged, change.id, change)
  ELSE IF remoteState[change.id].timestamp = change.timestamp
  THEN IF StrGreater(change.deviceId, remoteState[change.id].deviceId)
       THEN Put(merged, change.id, change)
       ELSE merged
  ELSE merged

\* The for-of loop of mergeChanges over localChanges, in array order.
RECURSIVE mergeLoop(_, _, _)
mergeLoop(merged, remoteState, localChanges) ==
  IF localChanges = <<>> THEN merged
  ELSE mergeLoop(mergeStep(merged, remoteState, Head(localChanges)),
                 remoteState, Tail(localChanges))

\* mergeChanges(remoteState, localChanges): starts from a copy of remoteState.
mergeChanges(remoteState, localChanges) ==
  mergeLoop(remoteState, remoteState, localChanges)

\* Faulty variant of calculateDiff: the records are compared, not their
\* timestamps.
calculateDiff_wholeRecord(newState, oldState) ==
  LET keys == {k \in DOMAIN newState :
                 k \notin DOMAIN oldState \/ oldState[k] # newState[k]}
  IN [k \in keys |-> newState[k]]

\* calculateDiff(newState, oldState).
calculateDiff(newState, oldState) ==
  LET keys == {k \in DOMAIN newState :
                 k \notin DOMAIN oldState
                 \/ oldState[k].timestamp # newState[k].timestamp}
  IN [k \in keys |-> newState[k]]

\* hasChanges(mergedState, remoteState): whether there is anything to upload.
hasChanges(mergedState, remoteState) ==
  DOMAIN calculateDiff(mergedState, remoteState) # {}

\* The remote store after it has applied an uploaded diff.
applyDiff(store, diff) ==
  [k \in (DOMAIN store) \cup (DOMAIN diff) |->
     IF k \in DOMAIN diff THEN diff[k] ELSE store[k]]

\* ------------------------------------------------------ S3MultipartUpload
\* this.PART_SIZE (line 116).
PART_SIZE == 5 * 1024 * 1024

\* Nothing has been handed to the transport.
NothingSent == [length |-> 0, mode |-> "none", parts |-> <<>>]

\* uploadMultipart(data): the lengths of the ordered parts data is split
\* into, each of PART_SIZE but the last.
RECURSIVE splitParts(_, _)
splitParts(length, partSize) ==
  IF length <= partSize THEN <<length>>
  ELSE <<partSize>> \o splitParts(length - partSize, partSize)

\* S3MultipartUpload.uploadDiff(diff), data = JSON.stringify(diff): the
\* method called and the lengths of the units sent.
uploadDiffUnits(length) ==
  IF length < PART_SIZE
  THEN [length |-> length, mode |-> "single", parts |-> <<length>>]
  ELSE [length |-> length, mode |-> "multipart",
        parts |-> splitParts(length, PART_SIZE)]

\* ---------------------------------------------------------------- cycles
\* The locals of one performSync invocation that passed the guard of line 31.
\*   pc: "fetch" (awaiting fetchRemoteState), "upload" (awaiting uploadDiff),
\*       "ok" (ended through line 47), "failed" (ended through the catch),
\*       "none" (no invocation has ended yet)
\*   startQueue: this.changeQueue when the invocation began
NewCycle(queue) ==
  [pc |-> "fetch", startQueue |-> queue, remoteState |-> EmptyState,
   localChanges |-> <<>>, mergedState |-> EmptyState, diff |-> EmptyState]

NoCycle == [NewCycle(<<>>) EXCEPT !.pc = "none"]

\* s without its i-th element.
RemoveAt(s, i) == SubSeq(s, 1, i - 1) \o SubSeq(s, i + 1, Len(s))

\* --------------------------------------------------------------- actions
Init ==
  /\ changeQueue = <<>>
  /\ lastSyncTimestamp = 0
  /\ isSyncing = FALSE
  /\ timers = 0
  /\ now = 1
  /\ remote = EmptyState
  /\ base = EmptyState
  /\ cycles = <<>>
  /\ last = NoCycle
  /\ calls = 0
  /\ bursts = 0
  /\ fetches = 0
  /\ remoteWrites = 0
  /\ sent = NothingSent

\* Faulty variant of scheduleSyncIfNeeded: a timer is armed for the first
\* change of the queue only.
scheduleSyncIfNeeded_firstOnly(syncing, queue, armed) ==
  IF ~syncing /\ Len(queue) = 1 THEN armed + 1 ELSE armed

\* scheduleSyncIfNeeded(): the number of armed timers after the call.
scheduleSyncIfNeeded(syncing, queue, armed) ==
  IF ~syncing /\ Len(queue) > 0 THEN armed + 1 ELSE armed

\* Faulty variant of queueChange: the whole queue is stamped with the
\* current time.
queueChange_restamps(id) ==
  /\ calls < MaxCalls
  /\ LET pushed == Append(changeQueue,
                          [id |-> id, payload |-> calls + 1,
                           timestamp |-> now, deviceId |-> getDeviceId])
         stamped == [j \in 1..Len(pushed) |->
                       [pushed[j] EXCEPT !.timestamp = now]]
     IN /\ changeQueue' = stamped
        /\ timers' = scheduleSyncIfNeeded(isSyncing, stamped, timers)
  /\ calls' = calls + 1
  /\ bursts' = IF ~isSyncing /\ timers = 0 THEN bursts + 1 ELSE bursts
  /\ UNCHANGED <<lastSyncTimestamp, isSyncing, now, remote, base, cycles,
                 last, fetches, remoteWrites>>
  /\ UNCHANGED sent

\* queueChange(change), change = {id, payload}.
queueChange(id) ==
  /\ calls < MaxCalls
  /\ LET pushed == Append(changeQueue,
                          [id |-> id, payload |-> calls + 1,
                           timestamp |-> now, deviceId |-> getDeviceId])
     IN /\ changeQueue' = pushed
        /\ timers' = scheduleSyncIfNeeded(isSyncing, pushed, timers)
  /\ calls' = calls + 1
  /\ bursts' = IF ~isSyncing /\ timers = 0 THEN bursts + 1 ELSE bursts
  /\ UNCHANGED <<lastSyncTimestamp, isSyncing, now, remote, base, cycles,
                 last, fetches, remoteWrites>>
  /\ UNCHANGED sent

\* Faulty variant of timerFire: performSync without the guard of line 31.
timerFire_noGuard ==
  /\ timers > 0
  /\ timers' = timers - 1
  /\ isSyncing' = TRUE
  /\ cycles' = Append(cycles, NewCycle(changeQueue))
  /\ fetches' = fetches + 1
  /\ UNCHANGED <<changeQueue, lastSyncTimestamp, now, remote, base, last,
                 calls, bursts, remoteWrites>>
  /\ UNCHANGED sent

\* Faulty variant of timerFire: the guard of line 31 returns through the
\* finally block.
timerFire_releases ==
  /\ timers > 0
  /\ timers' = timers - 1
  /\ IF isSyncing
     THEN /\ isSyncing' = FALSE
          /\ UNCHANGED <<cycles, fetches>>
     ELSE /\ isSyncing' = TRUE
          /\ cycles' = Append(cycles, NewCycle(changeQueue))
          /\ fetches' = fetches + 1
  /\ UNCHANGED <<changeQueue, lastSyncTimestamp, now, remote, base, last,
                 calls, bursts, remoteWrites>>
  /\ UNCHANGED sent

\* A timer armed by scheduleSyncIfNeeded runs performSync, up to the first
\* await: the guard of line 31, line 32 and the call of fetchRemoteState.
timerFire ==
  /\ timers > 0
  /\ timers' = timers - 1
  /\ IF isSyncing
     THEN UNCHANGED <<isSyncing, cycles, fetches>>
     ELSE /\ isSyncing' = TRUE
          /\ cycles' = Append(cycles, NewCycle(changeQueue))
          /\ fetches' = fetches + 1
  /\ UNCHANGED <<changeQueue, lastSyncTimestamp, now, remote, base, last,
                 calls, bursts, remoteWrites>>
  /\ UNCHANGED sent

\* Faulty variant of fetchOk: the upload is awaited whatever the diff.
fetchOk_alwaysUploads(i) ==
  /\ cycles[i].pc = "fetch"
  /\ LET mergedState == mergeChanges(remote, changeQueue)
     IN cycles' = [cycles EXCEPT ![i] =
                     [cycles[i] EXCEPT !.pc = "upload",
                                       !.remoteState = remote,
                                       !.localChanges = changeQueue,
                                       !.mergedState = mergedState,
                                       !.diff = calculateDiff(mergedState, remote)]]
  /\ UNCHANGED <<changeQueue, lastSyncTimestamp, isSyncing, last, timers, now,
                 remote, base, calls, bursts, fetches, remoteWrites>>
  /\ UNCHANGED sent

\* Faulty variant of fetchOk: with nothing to upload the invocation returns
\* without lines 46-47.
fetchOk_skipsCommit(i) ==
  /\ cycles[i].pc = "fetch"
  /\ LET remoteState  == remote
         mergedState  == mergeChanges(remoteState, changeQueue)
         diff         == calculateDiff(mergedState, remoteState)
         locals       == [cycles[i] EXCEPT !.remoteState = remoteState,
                                           !.localChanges = changeQueue,
                                           !.mergedState = mergedState,
                                           !.diff = diff]
     IN IF hasChanges(mergedState, remoteState) /\ DOMAIN diff # {}
        THEN /\ cycles' = [cycles EXCEPT ![i] = [locals EXCEPT !.pc = "upload"]]
             /\ UNCHANGED <<changeQueue, lastSyncTimestamp, isSyncing, last>>
        ELSE /\ cycles' = RemoveAt(cycles, i)
             /\ last' = [locals EXCEPT !.pc = "ok"]
             /\ isSyncing' = FALSE
             /\ UNCHANGED <<changeQueue, lastSyncTimestamp>>
  /\ UNCHANGED <<timers, now, remote, base, calls, bursts, fetches,
                 remoteWrites>>
  /\ UNCHANGED sent

\* fetchRemoteState() resolves: performSync runs from line 36 to the next
\* await (line 43) or, when there is nothing to upload, to its end.
fetchOk(i) ==
  /\ cycles[i].pc = "fetch"
  /\ LET remoteState  == remote
         mergedState  == mergeChanges(remoteState, changeQueue)
         diff         == calculateDiff(mergedState, remoteState)
         locals       == [cycles[i] EXCEPT !.remoteState = remoteState,
                                           !.localChanges = changeQueue,
                                           !.mergedState = mergedState,
                                           !.diff = diff]
     IN \* line 42, and the early return of uploadDiff (line 83)
        IF hasChanges(mergedState, remoteState) /\ DOMAIN diff # {}
        THEN /\ cycles' = [cycles EXCEPT ![i] = [locals EXCEPT !.pc = "upload"]]
             /\ UNCHANGED <<changeQueue, lastSyncTimestamp, isSyncing, last>>
        ELSE /\ cycles' = RemoveAt(cycles, i)
             /\ last' = [locals EXCEPT !.pc = "ok"]
             /\ changeQueue' = <<>>
             /\ lastSyncTimestamp' = now
             /\ isSyncing' = FALSE
  /\ UNCHANGED <<timers, now, remote, base, calls, bursts, fetches,
                 remoteWrites>>
  /\ UNCHANGED sent

\* Faulty variant of failed: the catch block empties the queue.
failed_clears(i) ==
  /\ cycles' = RemoveAt(cycles, i)
  /\ last' = [cycles[i] EXCEPT !.pc = "failed"]
  /\ changeQueue' = <<>>
  /\ isSyncing' = FALSE
  /\ UNCHANGED <<lastSyncTimestamp, timers, now, remote, base, calls, bursts,
                 fetches, remoteWrites>>
  /\ UNCHANGED sent

\* Faulty variant of failed: isSyncing is not reset.
failed_keepsGuard(i) ==
  /\ cycles' = RemoveAt(cycles, i)
  /\ last' = [cycles[i] EXCEPT !.pc = "failed"]
  /\ UNCHANGED <<changeQueue, lastSyncTimestamp, isSyncing, timers, now,
                 remote, base, calls, bursts, fetches, remoteWrites>>
  /\ UNCHANGED sent

\* The catch and finally blocks of performSync (lines 48-53).
failed(i) ==
  /\ cycles' = RemoveAt(cycles, i)
  /\ last' = [cycles[i] EXCEPT !.pc = "failed"]
  /\ isSyncing' = FALSE
  /\ UNCHANGED <<changeQueue, lastSyncTimestamp, timers, now, remote, base,
                 calls, bursts, fetches, remoteWrites>>
  /\ UNCHANGED sent

\* fetchRemoteState() rejects.
fetchFail(i) ==
  /\ cycles[i].pc = "fetch"
  /\ failed(i)

\* fetchRemoteState() resolves with a value mergeChanges cannot read (line 62
\* throws on the first change): the catch block is reached before anything
\* is assigned.
mergeFail(i) ==
  /\ cycles[i].pc = "fetch"
  /\ changeQueue # <<>>
  /\ failed(i)

\* upload.uploadDiff(diff) resolves: the remote store has applied the diff and
\* performSync runs lines 46-47 and the finally block.
uploadOk(i) ==
  /\ cycles[i].pc = "upload"
  /\ remote' = applyDiff(remote, cycles[i].diff)
  /\ cycles' = RemoveAt(cycles, i)
  /\ last' = [cycles[i] EXCEPT !.pc = "ok"]
  /\ changeQueue' = <<>>
  /\ lastSyncTimestamp' = now
  /\ isSyncing' = FALSE
  /\ UNCHANGED <<timers, now, base, calls, bursts, fetches, remoteWrites>>
  /\ UNCHANGED sent

\* upload.uploadDiff(diff) rejects.
uploadFail(i) ==
  /\ cycles[i].pc = "upload"
  /\ failed(i)

\* The wall clock advances.
tick ==
  /\ now < MaxTime
  /\ now' = now + 1
  /\ UNCHANGED <<changeQueue, lastSyncTimestamp, isSyncing, timers, remote,
                 base, cycles, last, calls, bursts, fetches, remoteWrites>>
  /\ UNCHANGED sent

\* Another device uploads a record to the remote store.
remoteWrite(id, ts, dev) ==
  /\ remoteWrites < MaxRemoteWrites
  /\ remoteWrites' = remoteWrites + 1
  /\ remote' = Put(remote, id, [id |-> id, payload |-> 0, timestamp |-> ts,
                                deviceId |-> dev])
  /\ UNCHANGED <<changeQueue, lastSyncTimestamp, isSyncing, timers, now, base,
                 cycles, last, calls, bursts, fetches>>
  /\ UNCHANGED sent

Next ==
  \/ \E id \in Ids : queueChange(id)
  \/ timerFire
  \/ \E i \in 1..Len(cycles) : fetchOk(i)
  \/ \E i \in 1..Len(cycles) : fetchFail(i)
  \/ \E i \in 1..Len(cycles) : mergeFail(i)
  \/ \E i \in 1..Len(cycles) : uploadOk(i)
  \/ \E i \in 1..Len(cycles) : uploadFail(i)
  \/ tick
  \/ \E id \in Ids, ts \in 1..MaxTime, dev \in OtherDevices :
       remoteWrite(id, ts, dev)

Spec == Init /\ [][Next]_vars

\* ------------------------------------------- mergeChanges on its own
\* The arrays mergeChanges may be handed: up to MaxLen changes of any id,
\* timestamp and device.  The payload of a change is its position, so that
\* two changes of one array are never the same object.
LocalChangesInputs ==
  UNION {{[i \in 1..n |-> [id |-> f[i][1], payload |-> i,
                           timestamp |-> f[i][2], deviceId |-> f[i][3]]] :
            f \in [1..n -> Ids \X (1..MaxTs) \X DeviceIds]} : n \in 0..MaxLen}

\* The snapshots fetchRemoteState may return: for each id no entry, or a
\* record of any timestamp and device.
RemoteInputs ==
  UNION {[d -> (1..MaxTs) \X DeviceIds] : d \in SUBSET Ids}

RemoteSnapshot(g) ==
  [k \in DOMAIN g |-> [id |-> k, payload |-> 0, timestamp |-> g[k][1],
                       deviceId |-> g[k][2]]]

MergeInit ==
  /\ changeQueue \in LocalChangesInputs
  /\ remote \in {RemoteSnapshot(g) : g \in RemoteInputs}
  /\ lastSyncTimestamp = 0
  /\ isSyncing = FALSE
  /\ timers = 0
  /\ now = 1
  /\ base = EmptyState
  /\ cycles = <<>>
  /\ last = NoCycle
  /\ calls = 0
  /\ bursts = 0
  /\ fetches = 0
  /\ remoteWrites = 0
  /\ sent = NothingSent

\* mergeChanges(remote, changeQueue) and calculateDiff on its result are
\* called; arguments and results are recorded in last.
mergeApply ==
  /\ last.pc = "none"
  /\ LET mergedState == mergeChanges(remote, changeQueue)
     IN last' = [NoCycle EXCEPT !.pc = "merged",
                                !.remoteState = remote,
                                !.localChanges = changeQueue,
                                !.mergedState = mergedState,
                                !.diff = calculateDiff(mergedState, remote)]
  /\ UNCHANGED <<changeQueue, lastSyncTimestamp, isSyncing, timers, now,
                 remote, base, cycles, calls, bursts, fetches, remoteWrites>>
  /\ UNCHANGED sent

MergeNext == mergeApply

MergeSpec == MergeInit /\ [][MergeNext]_vars

\* ------------------------------------------- calculateDiff on its own
\* A snapshot whose records carry the given payload.
Snapshot(g, payload) ==
  [k \in DOMAIN g |-> [id |-> k, payload |-> payload, timestamp |-> g[k][1],
                       deviceId |-> g[k][2]]]

\* The arguments of calculateDiff: any two snapshots, newState in
\* last.mergedState and oldState in last.remoteState.
DiffInit ==
  /\ last \in {[NoCycle EXCEPT !.pc = "args",
                               !.mergedState = Snapshot(g, 1),
                               !.remoteState = Snapshot(h, 0)] :
                 g \in RemoteInputs, h \in RemoteInputs}
  /\ changeQueue = <<>>
  /\ remote = EmptyState
  /\ lastSyncTimestamp = 0
  /\ isSyncing = FALSE
  /\ timers = 0
  /\ now = 1
  /\ base = EmptyState
  /\ cycles = <<>>
  /\ calls = 0
  /\ bursts = 0
  /\ fetches = 0
  /\ remoteWrites = 0
  /\ sent = NothingSent

\* calculateDiff(newState, oldState) is called and its result recorded.
diffApply ==
  /\ last.pc = "args"
  /\ last' = [last EXCEPT !.pc = "diffed",
                          !.diff = calculateDiff(last.mergedState,
                                                 last.remoteState)]
  /\ UNCHANGED <<changeQueue, lastSyncTimestamp, isSyncing, timers, now,
                 remote, base, cycles, calls, bursts, fetches, remoteWrites,
                 sent>>

DiffNext == diffApply

DiffSpec == DiffInit /\ [][DiffNext]_vars

\* ------------------------------- S3MultipartUpload.uploadDiff on its own
\* The lengths of JSON.stringify(diff): at least 2 ("{}"), around the
\* multiples of PART_SIZE.
DataLengths ==
  {n \in {k * PART_SIZE + d : k \in 0..MaxParts, d \in (-MaxSlack)..MaxSlack} :
     n >= 2}

ChunkInit ==
  /\ sent \in {[NothingSent EXCEPT !.length = n] : n \in DataLengths}
  /\ changeQueue = <<>>
  /\ remote = EmptyState
  /\ lastSyncTimestamp = 0
  /\ isSyncing = FALSE
  /\ timers = 0
  /\ now = 1
  /\ base = EmptyState
  /\ cycles = <<>>
  /\ last = NoCycle
  /\ calls = 0
  /\ bursts = 0
  /\ fetches = 0
  /\ remoteWrites = 0

\* upload.uploadDiff(diff) is called with a diff of sent.length characters.
chunkApply ==
  /\ sent.mode = "none"
  /\ sent' = uploadDiffUnits(sent.length)
  /\ UNCHANGED <<changeQueue, lastSyncTimestamp, isSyncing, timers, now,
                 remote, base, cycles, last, calls, bursts, fetches,
                 remoteWrites>>

ChunkNext == chunkApply

ChunkSpec == ChunkInit /\ [][ChunkNext]_vars

\* ------------------------------------------------------------ properties
\* s is an initial segment of t.
IsPrefix(s, t) == Len(s) <= Len(t) /\ SubSeq(t, 1, Len(s)) = s

\* A performSync invocation ends in this step.
CycleEnds == Len(cycles') < Len(cycles)

\* C1: no change is lost.  Whenever a change leaves changeQueue, the cycle
\* that ends in that step had passed it to mergeChanges.
C1_NoChangeLost ==
  [][\A c \in Range(changeQueue) :
       c \notin Range(changeQueue') =>
         CycleEnds /\ c \in Range(last'.localChanges)]_vars

\* C2: at most one performSync invocation is between its fetch and its end.
C2_MutualExclusion == Len(cycles) <= 1

\* Two calls armed two timers before any cycle, both timers have fired, and
\* one cycle is in flight: the other timer fired into the running cycle.
C2_Witness ==
  /\ Len(cycles) = 1
  /\ fetches = 1
  /\ last.pc = "none"
  /\ Len(cycles[1].startQueue) = 2
  /\ timers = 0

\* C3: queue durability.  When a cycle fails, the queue it started with is
\* an initial segment of the queue it leaves, each of its changes being there
\* once; and changeQueue loses entries only in a step that ends a cycle
\* successfully.
C3_QueueDurability ==
  [][/\ (CycleEnds /\ last'.pc = "failed") =>
          /\ IsPrefix(last'.startQueue, changeQueue')
          /\ \A c \in Range(last'.startQueue) :
               Cardinality({j \in 1..Len(changeQueue') : changeQueue'[j] = c}) = 1
     /\ ~IsPrefix(changeQueue, changeQueue') =>
          (CycleEnds /\ last'.pc = "ok")]_vars

\* A cycle that started with a non-empty queue failed in the upload, and a
\* change arrived while it ran.
C3_Witness ==
  /\ last.pc = "failed"
  /\ DOMAIN last.diff # {}
  /\ last.startQueue # <<>>
  /\ ~isSyncing
  /\ Len(changeQueue) > Len(last.startQueue)

\* C4: after a cycle that ended successfully, the baseline returned by
\* getLastKnownState is that cycle's merged snapshot.
C4_BaselineCommit ==
  last.pc = "ok" => getLastKnownState = last.mergedState

\* C5: debounce.  The cycles are those of the bursts: no more fetches have
\* been issued than bursts of queueChange calls have begun (a burst begins
\* with a call made when no cycle runs and no timer is armed, and goes on
\* while its timer is armed).
C5_Debounce == fetches <= bursts

\* C6: re-notify.  When a cycle ends and changes arrived while it ran, a sync
\* attempt is pending after that step.
C6_ReNotify ==
  [][(CycleEnds /\ Len(changeQueue) > Len(last'.startQueue)) =>
       timers' > 0]_vars

\* C7: a non-empty queue always has a cycle running or an attempt pending.
C7_AttemptPending ==
  changeQueue # <<>> => (isSyncing \/ timers > 0)

\* The candidate records of mergeChanges for an id: the remote entry and the
\* pending changes for it.
Candidates(r, id) ==
  {c \in Range(r.localChanges) : c.id = id}
    \cup (IF id \in DOMAIN r.remoteState THEN {r.remoteState[id]} ELSE {})

\* C8: tie-break determinism.  Of two candidates for an id with equal
\* timestamps, the one with the lesser device identifier is not the merged
\* entry.
C8_TieBreak ==
  last.pc = "merged" =>
    \A id \in Ids : \A x, y \in Candidates(last, id) :
      (x.timestamp = y.timestamp /\ StrGreater(y.deviceId, x.deviceId))
        => last.mergedState[id] # x

\* Change c of r.localChanges meets the condition of C9: the remote snapshot
\* has no entry for its id, or an entry with a strictly lesser timestamp.
RemoteAbsentOrOlder(r, c) ==
  \/ c.id \notin DOMAIN r.remoteState
  \/ r.remoteState[c.id].timestamp < c.timestamp

\* C9 as claimed: every pending change with the remote absent or older is the
\* merged entry for its id.
C9_LocalWins ==
  last.pc = "merged" =>
    \A i \in 1..Len(last.localChanges) :
      RemoteAbsentOrOlder(last, last.localChanges[i])
        => /\ last.localChanges[i].id \in DOMAIN last.mergedState
           /\ last.mergedState[last.localChanges[i].id] = last.localChanges[i]

\* Change c wins against the remote entry on the equal-timestamp tie-break.
WinsTie(r, c) ==
  /\ c.id \in DOMAIN r.remoteState
  /\ r.remoteState[c.id].timestamp = c.timestamp
  /\ StrGreater(c.deviceId, r.remoteState[c.id].deviceId)

\* C9 as amended: a pending change with the remote absent or older is the
\* merged entry for its id unless a later change of the queue for that id
\* also has the remote absent or older, or wins the tie-break against it.
C9_LastLocalWins ==
  last.pc = "merged" =>
    \A i \in 1..Len(last.localChanges) :
      (/\ RemoteAbsentOrOlder(last, last.localChanges[i])
       /\ \A j \in (i + 1)..Len(last.localChanges) :
            last.localChanges[j].id = last.localChanges[i].id
              => /\ ~RemoteAbsentOrOlder(last, last.localChanges[j])
                 /\ ~WinsTie(last, last.localChanges[j]))
        => /\ last.localChanges[i].id \in DOMAIN last.mergedState
           /\ last.mergedState[last.localChanges[i].id] = last.localChanges[i]

\* Two pending changes for one id, both newer than the remote entry, have
\* been merged, and the later one is the merged entry.
C9_Witness ==
  /\ last.pc = "merged"
  /\ \E i, j \in 1..Len(last.localChanges) :
       /\ i < j
       /\ last.localChanges[i].id = last.localChanges[j].id
       /\ last.localChanges[i].id \in DOMAIN last.remoteState
       /\ RemoteAbsentOrOlder(last, last.localChanges[i])
       /\ RemoteAbsentOrOlder(last, last.localChanges[j])
       /\ last.mergedState[last.localChanges[j].id] = last.localChanges[j]

\* Change c of r.localChanges is the only pending change for its id and the
\* remote entry for that id has a strictly greater timestamp.
RemoteNewer(r, c) ==
  /\ c.id \in DOMAIN r.remoteState
  /\ r.remoteState[c.id].timestamp > c.timestamp
  /\ \A d \in Range(r.localChanges) : d.id = c.id => d = c

\* C10: remote wins when newer.  For such a change the merged entry is the
\* remote entry and the diff has no entry for its id, in the cycle awaiting
\* its upload and in the cycle that ended last; once that cycle has ended
\* successfully the change is not in the queue.
C10_RemoteWins ==
  /\ \A r \in Range(cycles) \cup {last} :
       r.pc \in {"upload", "ok", "failed"} =>
         \A c \in Range(r.localChanges) :
           RemoteNewer(r, c) =>
             /\ r.mergedState[c.id] = r.remoteState[c.id]
             /\ c.id \notin DOMAIN r.diff
  /\ last.pc = "ok" =>
       \A c \in Range(last.localChanges) :
         RemoteNewer(last, c) => c \notin Range(changeQueue)

\* A cycle that merged a change older than the remote entry for its id has
\* ended successfully.
C10_Witness ==
  /\ last.pc = "ok"
  /\ \E c \in Range(last.localChanges) : RemoteNewer(last, c)

\* C11: calculateDiff(newState, oldState) holds exactly the entries of
\* newState whose id is absent from oldState or whose timestamp differs
\* there, each with newState's record; it is empty for equal arguments.
C11_DiffExact ==
  last.pc = "diffed" =>
    /\ \A k \in Ids :
         k \in DOMAIN last.diff <=>
           /\ k \in DOMAIN last.mergedState
           /\ \/ k \notin DOMAIN last.remoteState
              \/ last.remoteState[k].timestamp # last.mergedState[k].timestamp
    /\ \A k \in DOMAIN last.diff : last.diff[k] = last.mergedState[k]
    /\ \A k \in DOMAIN last.mergedState :
         (k \in DOMAIN last.remoteState
            /\ last.remoteState[k].timestamp = last.mergedState[k].timestamp)
           => k \notin DOMAIN last.diff

\* The diff of two snapshots that hold different records with one timestamp
\* for an id, and an id only newState holds, has been computed.
C11_Witness ==
  /\ last.pc = "diffed"
  /\ \E k \in DOMAIN last.mergedState \cap DOMAIN last.remoteState :
       /\ last.remoteState[k].timestamp = last.mergedState[k].timestamp
       /\ last.remoteState[k] # last.mergedState[k]
  /\ \E k \in DOMAIN last.mergedState : k \notin DOMAIN last.remoteState

\* The least number of parts of at most size characters that hold length.
CeilDiv(length, size) == (length + size - 1) \div size

\* C12: chunking threshold.  A serialized diff of at most PART_SIZE
\* characters is sent as one unit by uploadSingle; a longer one by
\* uploadMultipart as ceil(length / PART_SIZE) parts of at most PART_SIZE.
C12_Chunking ==
  sent.mode # "none" =>
    IF sent.length <= PART_SIZE
    THEN sent.mode = "single" /\ sent.parts = <<sent.length>>
    ELSE /\ sent.mode = "multipart"
         /\ Len(sent.parts) = CeilDiv(sent.length, PART_SIZE)
         /\ \A j \in 1..Len(sent.parts) : sent.parts[j] <= PART_SIZE

QueueChangeCalled == calls' = calls + 1

\* C14: a queueChange call appends one entry, stamped with the current time
\* and the device id, and leaves the queue's entries, isSyncing and
\* lastSyncTimestamp as they were; it can be made in every state.
C14_QueueChangeAppends ==
  [][/\ QueueChangeCalled =>
          /\ Len(changeQueue') = Len(changeQueue) + 1
          /\ SubSeq(changeQueue', 1, Len(changeQueue)) = changeQueue
          /\ changeQueue'[Len(changeQueue')].timestamp = now
          /\ changeQueue'[Len(changeQueue')].deviceId = getDeviceId
          /\ isSyncing' = isSyncing
          /\ lastSyncTimestamp' = lastSyncTimestamp
     /\ calls < MaxCalls => ENABLED (\E id \in Ids : queueChange(id))]_vars

\* A change queued at an earlier time is followed by one queued while a
\* cycle runs on a non-empty queue.
C14_Witness ==
  /\ Len(changeQueue) = 2
  /\ changeQueue[1].timestamp < changeQueue[2].timestamp
  /\ isSyncing
  /\ Len(cycles) = 1
  /\ Len(cycles[1].startQueue) = 1

\* The invocation that ends in this step was awaiting fetchRemoteState.
EndsFromFetch ==
  \E i \in 1..Len(cycles) :
    cycles[i].pc = "fetch" /\ cycles' = RemoveAt(cycles, i)

\* C15: fetch failure.  The invocation ends with mergeChanges and the upload
\* not called, changeQueue and lastSyncTimestamp untouched and isSyncing
\* false; a queueChange call made after a failed cycle, with none running,
\* arms a timer; and every cycle whose fetch resolves merges the whole queue.
C15_FetchFailure ==
  [][/\ (EndsFromFetch /\ last'.pc = "failed") =>
          /\ changeQueue' = changeQueue
          /\ IsPrefix(last'.startQueue, changeQueue')
          /\ lastSyncTimestamp' = lastSyncTimestamp
          /\ ~isSyncing'
          /\ remote' = remote
          /\ last'.localChanges = <<>>
          /\ last'.mergedState = EmptyState
     /\ (QueueChangeCalled /\ last.pc = "failed" /\ ~isSyncing) =>
          /\ timers' = timers + 1
          /\ IsPrefix(changeQueue, changeQueue')
     /\ \A i \in 1..Len(cycles) :
          (cycles[i].pc = "fetch" /\ i <= Len(cycles')
             /\ cycles'[i].pc = "upload") =>
            cycles'[i].localChanges = changeQueue
     /\ (EndsFromFetch /\ last'.pc = "ok") =>
          last'.localChanges = changeQueue]_vars

\* After a cycle failed in the fetch, with its change retained, the next
\* queueChange call has armed a timer.
C15_Witness ==
  /\ last.pc = "failed"
  /\ last.localChanges = <<>>
  /\ Len(last.startQueue) = 1
  /\ Len(changeQueue) = 2
  /\ IsPrefix(last.startQueue, changeQueue)
  /\ bursts = 2
  /\ timers = 1
  /\ ~isSyncing

\* C16: isSyncing is true only while a performSync invocation is in flight:
\* every invocation, however it ends, leaves it false.
C16_GuardReleased == isSyncing <=> Len(cycles) > 0

\* After a failed cycle a later timer has started another cycle.
C16_Witness ==
  /\ last.pc = "failed"
  /\ isSyncing
  /\ Len(cycles) = 1
  /\ fetches = 2

\* C17: no-op cycle.  An invocation that ends successfully from the fetch
\* has an empty diff, leaves the remote store alone, empties the queue and
\* sets lastSyncTimestamp to the current time; lastSyncTimestamp changes only
\* in a step that ends a cycle successfully, and never decreases.
C17_NoOpCycle ==
  [][/\ (EndsFromFetch /\ last'.pc = "ok") =>
          /\ DOMAIN last'.diff = {}
          /\ remote' = remote
          /\ changeQueue' = <<>>
          /\ lastSyncTimestamp' = now
     /\ \A i \in 1..Len(cycles) :
          (cycles[i].pc = "fetch" /\ i <= Len(cycles')
             /\ cycles'[i].pc = "upload") => DOMAIN cycles'[i].diff # {}
     /\ lastSyncTimestamp' # lastSyncTimestamp =>
          (CycleEnds /\ last'.pc = "ok")
     /\ lastSyncTimestamp' >= lastSyncTimestamp]_vars

\* A cycle with a pending change and an empty diff has ended successfully
\* at a later time than the cycle before it.
C17_Witness ==
  /\ last.pc = "ok"
  /\ last.localChanges # <<>>
  /\ DOMAIN last.diff = {}
  /\ changeQueue = <<>>
  /\ lastSyncTimestamp = now
  /\ fetches = 2

\* Change c of r.localChanges passes the test of lines 65-72 against the
\* remote snapshot.
Accepted(r, c) == RemoteAbsentOrOlder(r, c) \/ WinsTie(r, c)

\* The positions of the changes for id in r.localChanges that pass the test.
AcceptedAt(r, id) ==
  {i \in 1..Len(r.localChanges) :
     r.localChanges[i].id = id /\ Accepted(r, r.localChanges[i])}

\* The greatest element of a non-empty set of numbers.
Greatest(S) == CHOOSE x \in S : \A y \in S : y <= x

\* C18: for every id the merged entry is the last change of the queue for
\* that id that passes the test against the remote snapshot, whatever the
\* timestamps of the earlier ones; if none passes it is the remote entry.
C18_LastAcceptedWins ==
  last.pc = "merged" =>
    \A id \in Ids :
      IF AcceptedAt(last, id) # {}
      THEN /\ id \in DOMAIN last.mergedState
           /\ last.mergedState[id] =
                last.localChanges[Greatest(AcceptedAt(last, id))]
      ELSE IF id \in DOMAIN last.remoteState
      THEN /\ id \in DOMAIN last.mergedState
           /\ last.mergedState[id] = last.remoteState[id]
      ELSE id \notin DOMAIN last.mergedState

\* Two changes for one id pass the test, the earlier with the greater
\* timestamp, and the later is the merged entry.
C18_Witness ==
  /\ last.pc = "merged"
  /\ \E i, j \in 1..Len(last.localChanges) :
       /\ i < j
       /\ last.localChanges[i].id = last.localChanges[j].id
       /\ Accepted(last, last.localChanges[i])
       /\ Accepted(last, last.localChanges[j])
       /\ last.localChanges[i].timestamp > last.localChanges[j].timestamp
       /\ last.mergedState[last.localChanges[j].id] = last.localChanges[j]

\* C19: in a cycle that awaits its upload or has ended successfully, every
\* merged entry that is a pending change and not the remote entry is in the
\* diff.
C19_WinnersUploaded ==
  \A r \in Range(cycles) \cup {last} :
    r.pc \in {"upload", "ok"} =>
      \A id \in DOMAIN r.mergedState :
        (/\ r.mergedState[id] \in Range(r.localChanges)
         /\ (id \in DOMAIN r.remoteState =>
               r.mergedState[id] # r.remoteState[id]))
          => /\ id \in DOMAIN r.diff
             /\ r.diff[id] = r.mergedState[id]

\* C20: a timer that fires while a cycle runs changes nothing but the number
\* of armed timers.
C20_TimerDuringCycle ==
  [][(timers' = timers - 1 /\ isSyncing) =>
       /\ isSyncing'
       /\ UNCHANGED <<changeQueue, lastSyncTimestamp, cycles, last, fetches,
                      remote, base>>]_vars

\* Two timers were armed before any cycle and both have fired; the one cycle
\* is awaiting its upload with isSyncing still true.
C20_Witness ==
  /\ Len(cycles) = 1
  /\ cycles[1].pc = "upload"
  /\ Len(cycles[1].startQueue) = 2
  /\ fetches = 1
  /\ last.pc = "none"
  /\ timers = 0
  /\ isSyncing

====
